---- MODULE Spec2Model ----
(***************************************************************************)
(* GrowPanel MCP server: the request/response transport (POST /events),    *)
(* the SDK tools/call handler, the three tools (getMRR, getLeads,          *)
(* getCohorts), their zod input schemas, wrapTool and callApi.             *)
(*                                                                         *)
(* JavaScript values are tagged records [t |-> type, v |-> payload].       *)
(* A string is a sequence of text fragments; strings whose length or       *)
(* characters the program inspects (date, currency) are given character    *)
(* by character, fixed texts of the program are one fragment.              *)
(***************************************************************************)
EXTENDS Integers, Sequences, FiniteSets, TLC

VARIABLES
    apiKey,      \* process.env.GROWPANEL_API_TOKEN
    pc,          \* per request: where its handler stands
    transport,   \* per request: "http" (the http server) or "sdk" (SDK handler)
    line,        \* per request: the method and url of an http request
    body,        \* per request: the received body (http) or the request (sdk)
    call,        \* per request: what the handler holds across the upstream await
    ran,         \* per request: the tool execution functions invoked
    fetches,     \* per request: the upstream GET requests issued
    upstream,    \* per request: the upstream outcomes delivered to it
    responses,   \* per request: the responses sent (http) / outcomes (sdk)
    wrapIn,      \* wrapTool alone: the value the tool function returns
    wrapOut      \* wrapTool alone: what wrapTool returns for it

vars == <<apiKey, pc, transport, line, body, call, ran, fetches, upstream, responses,
          wrapIn, wrapOut>>

-----------------------------------------------------------------------------
(* Bounds of the model *)

\* An argument mapping supplies at most this many fields.
MaxFields == 2

\* An array or object a tool function returns holds at most this many items.
MaxItems == 2

\* The request slots handled (one at a time in Spec).
Reqs == {"r1"}

-----------------------------------------------------------------------------
(* JavaScript values *)

Undefined == [t |-> "undefined"]
Null == [t |-> "null"]
Str(s) == [t |-> "string", v |-> s]
Num(n) == [t |-> "number", v |-> n]
Arr(a) == [t |-> "array", v |-> a]
Obj(f) == [t |-> "object", v |-> f]

\* A fixed text of one fragment.
Lit(s) == Str(<<s>>)

\* The empty mapping (an object without keys).
EmptyMap == [k \in {} |-> Undefined]

\* o[k] for a non-null, non-undefined o: keys a value does not have read undefined.
Get(o, k) == IF o.t = "object" /\ k \in DOMAIN o.v THEN o.v[k] ELSE Undefined

\* JavaScript truthiness.
Truthy(x) ==
    CASE x.t = "undefined" -> FALSE
      [] x.t = "null" -> FALSE
      [] x.t = "string" -> Len(x.v) > 0
      [] x.t = "number" -> x.v # 0
      [] OTHER -> TRUE

\* s contains sub as a contiguous run of fragments.
Contains(s, sub) ==
    \E i \in 1..(Len(s) - Len(sub) + 1) : SubSeq(s, i, i + Len(sub) - 1) = sub

DigitChars == <<"0", "1", "2", "3", "4", "5", "6", "7", "8", "9">>

IsDigit(c) == \E i \in 1..Len(DigitChars) : DigitChars[i] = c

\* String(n) for a non-negative integer n: its decimal digits.
RECURSIVE NatToString(_)
NatToString(n) ==
    IF n < 10 THEN <<DigitChars[n + 1]>>
    ELSE NatToString(n \div 10) \o <<DigitChars[(n % 10) + 1]>>

\* n as exactly w decimal digits, zero padded (n < 10^w).
RECURSIVE Pad(_, _)
Pad(n, w) ==
    IF w = 0 THEN <<>> ELSE Pad(n \div 10, w - 1) \o <<DigitChars[(n % 10) + 1]>>

-----------------------------------------------------------------------------
(* JSON.stringify(x, null, 2), white space left out *)

\* The text of a list of texts joined by commas.
RECURSIVE JoinComma(_)
JoinComma(parts) ==
    IF Len(parts) = 0 THEN <<>>
    ELSE IF Len(parts) = 1 THEN parts[1]
    ELSE parts[1] \o <<",">> \o JoinComma(Tail(parts))

\* The keys of a mapping as a sequence, in one fixed order.
RECURSIVE KeySeq(_)
KeySeq(keys) ==
    IF keys = {} THEN <<>>
    ELSE LET k == CHOOSE k \in keys : TRUE IN <<k>> \o KeySeq(keys \ {k})

\* JSON.stringify: the value undefined has no JSON text and the call returns
\* undefined, not a string; inside an array undefined is written null, inside an
\* object a key holding undefined is left out.
RECURSIVE JSONstringify(_)
JSONstringify(x) ==
    CASE x.t = "undefined" -> Undefined
      [] x.t = "null" -> Str(<<"null">>)
      [] x.t = "number" -> Str(NatToString(x.v))
      [] x.t = "string" -> Str(<<"\"">> \o x.v \o <<"\"">>)
      [] x.t = "array" ->
            LET item(i) == IF x.v[i].t = "undefined" THEN <<"null">>
                           ELSE JSONstringify(x.v[i]).v
            IN Str(<<"[">> \o JoinComma([i \in 1..Len(x.v) |-> item(i)]) \o <<"]">>)
      [] x.t = "object" ->
            LET keys == KeySeq({k \in DOMAIN x.v : x.v[k].t # "undefined"})
                member(i) == <<"\"", keys[i], "\"", ":">> \o JSONstringify(x.v[keys[i]]).v
            IN Str(<<"{">> \o JoinComma([i \in 1..Len(keys) |-> member(i)]) \o <<"}">>)

-----------------------------------------------------------------------------
(* zod: the input schemas of the three tools *)

Ok(x) == [ok |-> TRUE, value |-> x]
Issue(code) == [ok |-> FALSE, code |-> code]

\* /^\d{8}-\d{8}$/ on a string given character by character.
DateRegex(s) ==
    /\ Len(s) = 17
    /\ s[9] = "-"
    /\ \A i \in (1..8) \cup (10..17) : IsDigit(s[i])

\* z.string().regex(/^\d{8}-\d{8}$/).optional()
ZodDate(x) ==
    IF x = Undefined THEN Ok(x)
    ELSE IF x.t # "string" THEN Issue("invalid_type")
    ELSE IF ~DateRegex(x.v) THEN Issue("invalid_string")
    ELSE Ok(x)

IntervalValues == {<<"day">>, <<"week">>, <<"month">>, <<"quarter">>, <<"year">>}
RegionValues == {<<"europe">>, <<"asia">>, <<"north_america">>, <<"emea">>, <<"apac">>}
BillingFreqValues == {<<"month">>, <<"quarter">>, <<"year">>, <<"week">>}

\* z.enum(values).optional()
ZodEnumOptional(values, x) ==
    IF x = Undefined THEN Ok(x)
    ELSE IF x.t # "string" THEN Issue("invalid_type")
    ELSE IF x.v \notin values THEN Issue("invalid_enum_value")
    ELSE Ok(x)

\* z.enum([...]).optional().default("month"): only undefined takes the default.
ZodInterval(x) ==
    ZodEnumOptional(IntervalValues, IF x = Undefined THEN Lit("month") ELSE x)

\* ZodCurrency without the length constraint.
ZodCurrencyAnyLength(x) ==
    IF x = Undefined THEN Ok(x)
    ELSE IF x.t # "string" THEN Issue("invalid_type")
    ELSE Ok(x)

\* z.string().length(3).optional()
ZodCurrency(x) ==
    IF x = Undefined THEN Ok(x)
    ELSE IF x.t # "string" THEN Issue("invalid_type")
    ELSE IF Len(x.v) < 3 THEN Issue("too_small")
    ELSE IF Len(x.v) > 3 THEN Issue("too_big")
    ELSE Ok(x)

\* z.string().optional()
ZodStringOptional(x) ==
    IF x = Undefined THEN Ok(x)
    ELSE IF x.t # "string" THEN Issue("invalid_type")
    ELSE Ok(x)

getMRRShape ==
    <<"date", "interval", "region", "currency", "billing_freq", "payment_method", "age">>

\* getMRRInput with billing_freq declared with the values of interval.
getMRRInputBillingAsInterval(key, x) ==
    CASE key = "date" -> ZodDate(x)
      [] key = "interval" -> ZodInterval(x)
      [] key = "region" -> ZodEnumOptional(RegionValues, x)
      [] key = "currency" -> ZodCurrency(x)
      [] key = "billing_freq" -> ZodEnumOptional(IntervalValues, x)
      [] key = "payment_method" -> ZodStringOptional(x)
      [] key = "age" -> ZodStringOptional(x)

getMRRInput(key, x) ==
    CASE key = "date" -> ZodDate(x)
      [] key = "interval" -> ZodInterval(x)
      [] key = "region" -> ZodEnumOptional(RegionValues, x)
      [] key = "currency" -> ZodCurrency(x)
      [] key = "billing_freq" -> ZodEnumOptional(BillingFreqValues, x)
      [] key = "payment_method" -> ZodStringOptional(x)
      [] key = "age" -> ZodStringOptional(x)

getLeadsShape ==
    <<"date", "interval", "region", "currency", "payment_method", "age">>

getLeadsInput(key, x) ==
    CASE key = "date" -> ZodDate(x)
      [] key = "interval" -> ZodInterval(x)
      [] key = "region" -> ZodEnumOptional(RegionValues, x)
      [] key = "currency" -> ZodCurrency(x)
      [] key = "payment_method" -> ZodStringOptional(x)
      [] key = "age" -> ZodStringOptional(x)

getCohortsShape ==
    <<"date", "interval", "region", "currency", "billing_freq", "payment_method", "age">>

getCohortsInput(key, x) ==
    CASE key = "date" -> ZodDate(x)
      [] key = "interval" -> ZodInterval(x)
      [] key = "region" -> ZodEnumOptional(RegionValues, x)
      [] key = "currency" -> ZodCurrency(x)
      [] key = "billing_freq" -> ZodEnumOptional(BillingFreqValues, x)
      [] key = "payment_method" -> ZodStringOptional(x)
      [] key = "age" -> ZodStringOptional(x)

ToolNames == {"getMRR", "getLeads", "getCohorts"}

ToolShape(tool) ==
    CASE tool = "getMRR" -> getMRRShape
      [] tool = "getLeads" -> getLeadsShape
      [] tool = "getCohorts" -> getCohortsShape

ToolInput(tool, key, x) ==
    CASE tool = "getMRR" -> getMRRInput(key, x)
      [] tool = "getLeads" -> getLeadsInput(key, x)
      [] tool = "getCohorts" -> getCohortsInput(key, x)

\* ZodError.message: the issues, each with the path of the field and its code.
ZodMessage(issues) ==
    <<"[">> \o JoinComma([i \in 1..Len(issues) |->
                 <<"{code:", issues[i].code, ",path:">> \o issues[i].path \o <<"}">>])
    \o <<"]">>

ZodError(issues) == [name |-> "ZodError", message |-> ZodMessage(issues)]

\* schema.parse(data) of a z.object: every field of the shape is parsed, in shape
\* order, and every issue is collected; keys outside the shape are stripped; a key
\* whose parsed value is undefined and that data does not hold is left out. The
\* parsed object is a sequence of <<key, value>>: JavaScript keeps insertion order.
ZodObjectParse(tool, data) ==
    IF data.t # "object"
    THEN [ok |-> FALSE, error |-> ZodError(<<[path |-> <<>>, code |-> "invalid_type"]>>)]
    ELSE
      LET field(key) == [key |-> key,
                         held |-> key \in DOMAIN data.v,
                         r |-> ToolInput(tool, key, Get(data, key))]
          collect(bad, kept) ==
              IF Len(bad) > 0
              THEN [ok |-> FALSE,
                    error |-> ZodError([i \in 1..Len(bad) |->
                                          [path |-> <<bad[i].key>>, code |-> bad[i].r.code]])]
              ELSE [ok |-> TRUE,
                    value |-> [i \in 1..Len(kept) |-> <<kept[i].key, kept[i].r.value>>]]
          split(fields) ==
              collect(SelectSeq(fields, LAMBDA f : ~f.r.ok),
                      SelectSeq(fields,
                                LAMBDA f : f.r.ok /\ (f.r.value # Undefined \/ f.held)))
          parse(shape) == split([i \in 1..Len(shape) |-> field(shape[i])])
      IN parse(ToolShape(tool))

-----------------------------------------------------------------------------
(* The clock and the default date *)

\* The calendar date <<year, month, day>> of a day counted from 1970-01-01.
CivilFromDays(days) ==
    LET z == days + 719468
        era == z \div 146097
        doe == z - era * 146097
        yoe == (doe - doe \div 1460 + doe \div 36524 - doe \div 146096) \div 365
        doy == doe - (365 * yoe + yoe \div 4 - yoe \div 100)
        mp == (5 * doy + 2) \div 153
        d == doy - (153 * mp + 2) \div 5 + 1
        m == IF mp < 10 THEN mp + 3 ELSE mp - 9
        y == yoe + era * 400 + (IF m <= 2 THEN 1 ELSE 0)
    IN <<y, m, d>>

\* A day as yyyyMMdd, character by character.
FormatDay(days) ==
    LET c == CivilFromDays(days) IN Pad(c[1], 4) \o Pad(c[2], 2) \o Pad(c[3], 2)

\* Ordered objects: sequences of <<key, value>>.
HasKey(pairs, k) == \E i \in 1..Len(pairs) : pairs[i][1] = k

Lookup(pairs, k) ==
    IF HasKey(pairs, k)
    THEN pairs[CHOOSE i \in 1..Len(pairs) : pairs[i][1] = k][2]
    ELSE Undefined

\* pairs[k] = x: an existing key keeps its place, a new key goes last.
Assign(pairs, k, x) ==
    IF HasKey(pairs, k)
    THEN [i \in 1..Len(pairs) |-> IF pairs[i][1] = k THEN <<k, x>> ELSE pairs[i]]
    ELSE Append(pairs, <<k, x>>)

\* getMRR: start.setDate(end.getDate() - 365) moves the local date back 365 days;
\* d.toISOString().slice(0, 10) is the UTC date of each of the two instants.
getMRRDefaultDate(clock) ==
    Str(FormatDay(clock.day - 365 + clock.utcStart) \o <<"-">>
        \o FormatDay(clock.day + clock.utcEnd))

\* getLeads, getCohorts: subDays(end, 365) and format(d, "yyyyMMdd"), local dates.
dateFnsDefaultDate(clock) ==
    Str(FormatDay(clock.day - 365) \o <<"-">> \o FormatDay(clock.day))

-----------------------------------------------------------------------------
(* callApi *)

Throw(e) == [kind |-> "throw", error |-> e]
Return(x) == [kind |-> "return", value |-> x]
Fetch(req) == [kind |-> "fetch", request |-> req]

Error(message) == [name |-> "Error", message |-> message]

\* callApiQuery with the test "if (params[key])": falsy values are skipped.
callApiQuerySkipFalsy(params) ==
    LET sent == SelectSeq(params, LAMBDA p : Truthy(p[2]))
    IN [i \in 1..Len(sent) |-> <<sent[i][1], sent[i][2].v>>]

\* The query parameters appended to the URL: every key of params, in its order,
\* whose value is neither undefined nor null.
callApiQuery(params) ==
    LET sent == SelectSeq(params, LAMBDA p : p[2] # Undefined /\ p[2] # Null)
    IN [i \in 1..Len(sent) |-> <<sent[i][1], sent[i][2].v>>]

\* callApiBegin without the credential check.
callApiBeginNoCheck(endpoint, params, key) ==
    Fetch([method |-> "GET",
           path |-> <<"/reports/", endpoint>>,
           query |-> callApiQuery(params),
           authorization |-> <<"Bearer ">> \o (IF key.t = "string" THEN key.v
                                               ELSE <<key.t>>)])

\* callApi up to the fetch: the credential check, the URL, the GET request.
callApiBegin(endpoint, params, key) ==
    IF ~Truthy(key)
    THEN Throw(Error(<<"GROWPANEL_API_KEY environment variable is required">>))
    ELSE Fetch([method |-> "GET",
                path |-> <<"/reports/", endpoint>>,
                query |-> callApiQuery(params),
                authorization |-> <<"Bearer ">> \o key.v])

\* response.ok taken to cover every status below 400.
ResponseOkBelow400(status) == status >= 200 /\ status < 400

\* response.ok
ResponseOk(status) == status >= 200 /\ status <= 299

\* callApi after the fetch settled: the catch logs and rethrows.
callApiEnd(request, outcome) ==
    CASE outcome.kind = "network" ->
            Throw([name |-> "TypeError", message |-> <<"fetch failed">>])
      [] outcome.kind = "aborted" ->
            Throw([name |-> "TypeError", message |-> <<"terminated">>])
      [] outcome.kind = "http" /\ ~ResponseOk(outcome.status) ->
            Throw(Error(<<"API call failed: ">> \o NatToString(outcome.status) \o <<" ">>
                        \o outcome.statusText \o <<" - ">> \o outcome.text))
      [] outcome.kind = "http" /\ ResponseOk(outcome.status) /\ outcome.json.t = "invalid" ->
            Throw([name |-> "SyntaxError", message |-> <<"Unexpected token">>])
      [] OTHER -> Return(outcome.json)

-----------------------------------------------------------------------------
(* The tools *)

TextBlock(text) == Obj([type |-> Lit("text"), text |-> text])

Envelope(blocks) == Obj([content |-> Arr(blocks)])

\* getMRROutput, with date and total_mrr standing for its fields.
getMRROutput(x) ==
    /\ x.t = "object"
    /\ Get(x, "date").t = "string"
    /\ Get(x, "total_mrr").t = "number"

\* getMRRApiResponse: z.object({ result: z.array(getMRROutput) })
getMRRApiResponse(x) ==
    /\ x.t = "object"
    /\ Get(x, "result").t = "array"
    /\ \A i \in 1..Len(Get(x, "result").v) : getMRROutput(Get(x, "result").v[i])

\* run up to the upstream call: parse, default date, callApi.
getMRRRun(params, clock, key) ==
    LET run(parsed) ==
            IF ~parsed.ok THEN Throw(parsed.error)
            ELSE callApiBegin("mrr",
                     IF ~Truthy(Lookup(parsed.value, "date"))
                     THEN Assign(parsed.value, "date", getMRRDefaultDate(clock))
                     ELSE parsed.value,
                     key)
    IN run(ZodObjectParse("getMRR", params))

\* run after callApi returned: validate the response, format it.
getMRRDone(apiResponse) ==
    IF ~getMRRApiResponse(apiResponse)
    THEN Throw(ZodError(<<[path |-> <<"result">>, code |-> "invalid_type"]>>))
    ELSE Return(Envelope(<<
            TextBlock(Str(<<"# MRR Report">>
                          \o JSONstringify(Num(Len(Get(apiResponse, "result").v))).v)),
            TextBlock(Str(<<"Raw data:">> \o JSONstringify(Get(apiResponse, "result")).v))
         >>))

getLeadsRun(params, clock, key) ==
    LET run(parsed) ==
            IF ~parsed.ok THEN Throw(parsed.error)
            ELSE callApiBegin("leads",
                     IF ~Truthy(Lookup(parsed.value, "date"))
                     THEN Assign(parsed.value, "date", dateFnsDefaultDate(clock))
                     ELSE parsed.value,
                     key)
    IN run(ZodObjectParse("getLeads", params))

getLeadsDone(apiResponse) ==
    Return(Envelope(<<TextBlock(JSONstringify(apiResponse))>>))

getCohortsRun(params, clock, key) ==
    LET run(parsed) ==
            IF ~parsed.ok THEN Throw(parsed.error)
            ELSE callApiBegin("cohort",
                     IF ~Truthy(Lookup(parsed.value, "date"))
                     THEN Assign(parsed.value, "date", dateFnsDefaultDate(clock))
                     ELSE parsed.value,
                     key)
    IN run(ZodObjectParse("getCohorts", params))

getCohortsDone(apiResponse) ==
    Return(Envelope(<<TextBlock(JSONstringify(apiResponse))>>))

ToolRun(tool, params, clock, key) ==
    CASE tool = "getMRR" -> getMRRRun(params, clock, key)
      [] tool = "getLeads" -> getLeadsRun(params, clock, key)
      [] tool = "getCohorts" -> getCohortsRun(params, clock, key)

ToolDone(tool, apiResponse) ==
    CASE tool = "getMRR" -> getMRRDone(apiResponse)
      [] tool = "getLeads" -> getLeadsDone(apiResponse)
      [] tool = "getCohorts" -> getCohortsDone(apiResponse)

-----------------------------------------------------------------------------
(* wrapTool *)

\* What the wrapped function returns for the value the tool function returned.
wrapTool(result) ==
    IF Truthy(result) /\ Truthy(Get(result, "content")) THEN result
    ELSE IF result.t = "array"
    THEN Envelope([i \in 1..Len(result.v) |->
                     TextBlock(IF result.v[i].t = "string" THEN result.v[i]
                               ELSE JSONstringify(result.v[i]))])
    ELSE Envelope(<<TextBlock(IF result.t = "string" THEN result
                              ELSE JSONstringify(result))>>)

\* The wrapped function on the tool function's outcome: an error is rethrown.
Wrapped(outcome) ==
    IF outcome.kind = "return" THEN Return(wrapTool(outcome.value)) ELSE outcome

-----------------------------------------------------------------------------
(* The tools/call dispatch of the two transports *)

\* A mapping without the keys that hold undefined: what JSON.stringify writes of
\* an object, and how the inputs below leave a key out.
StripUndefined(f) == [k \in {k \in DOMAIN f : f[k] # Undefined} |-> f[k]]

ErrorObject(code, message) == Obj([code |-> Num(code), message |-> Str(message)])

ErrorObjectData(code, message, data) ==
    Obj([code |-> Num(code), message |-> Str(message), data |-> Str(data)])

\* The tool a name selects in the switch, "" for the default case.
SwitchTool(name) ==
    IF \E tool \in ToolNames : name = Lit(tool)
    THEN CHOOSE tool \in ToolNames : name = Lit(tool)
    ELSE ""

\* ToolResume with the upstream call issued again when it failed.
ToolResumeRetry(tool, request, outcome) ==
    LET resume(api) == IF api.kind = "throw" THEN Fetch(request)
                       ELSE Wrapped(ToolDone(tool, api.value))
    IN resume(callApiEnd(request, outcome))

\* The tool function after the upstream call settled: callApi's result or error,
\* then the tool's own handling of the payload, then wrapTool.
ToolResume(tool, request, outcome) ==
    LET resume(api) == IF api.kind = "throw" THEN api ELSE Wrapped(ToolDone(tool, api.value))
    IN resume(callApiEnd(request, outcome))

\* PostToolResponse with a result key written beside the error.
PostToolResponseBoth(message, o) ==
    IF o.kind = "throw"
    THEN [jsonrpc |-> Lit("2.0"), id |-> Get(message, "id"), result |-> Null,
          error |-> ErrorObjectData(-32603, <<"Internal error">>, o.error.message)]
    ELSE [jsonrpc |-> Lit("2.0"), id |-> Get(message, "id"), result |-> o.value]

\* POST /events, tools/call: the response for the outcome of the wrapped tool
\* (the catch of the inner try for an error).
PostToolResponse(message, o) ==
    IF o.kind = "throw"
    THEN [jsonrpc |-> Lit("2.0"), id |-> Get(message, "id"),
          error |-> ErrorObjectData(-32603, <<"Internal error">>, o.error.message)]
    ELSE [jsonrpc |-> Lit("2.0"), id |-> Get(message, "id"), result |-> o.value]

\* POST /events, tools/call, up to the upstream call or to the response.
PostToolsCall(message, clock, key) ==
    LET params == Get(message, "params")
    IN IF params = Undefined \/ params = Null
       THEN \* destructuring undefined or null throws a TypeError inside the try
            [kind |-> "respond", ran |-> <<>>,
             response |-> PostToolResponse(message,
                 Throw([name |-> "TypeError",
                        message |-> <<"Cannot destructure property 'name'">>]))]
       ELSE LET name == Get(params, "name")
                args == Get(params, "arguments")
                ranTool(tool, o) ==
                    IF o.kind = "fetch"
                    THEN [kind |-> "fetch", ran |-> <<tool>>, tool |-> tool,
                          request |-> o.request, clock |-> clock]
                    ELSE [kind |-> "respond", ran |-> <<tool>>,
                          response |-> PostToolResponse(message, o)]
                switch(tool) ==
                    IF tool = ""
                    THEN [kind |-> "respond", ran |-> <<>>,
                          response |-> [jsonrpc |-> Lit("2.0"), id |-> Get(message, "id"),
                                        error |-> ErrorObject(-32601,
                                            <<"Unknown tool: ">> \o
                                            (IF name.t = "string" THEN name.v
                                             ELSE <<name.t>>))]]
                    ELSE ranTool(tool, ToolRun(tool, args, clock, key))
            IN switch(SwitchTool(name))

\* PostCatalog kept as a registry that calls reorder: the tools that have been
\* run come first.
PostCatalogRecentFirst ==
    LET registry ==
            <<[name |-> "getMRR", description |-> "getMRR.description",
               properties |-> <<"date", "interval", "region", "currency", "billing_freq",
                                "payment_method", "age">>],
              [name |-> "getLeads", description |-> "getLeads.description",
               properties |-> <<"date", "interval", "region", "currency",
                                "payment_method", "age">>],
              [name |-> "getCohorts", description |-> "getCohorts.description",
               properties |-> <<"date", "interval", "region", "currency", "billing_freq",
                                "payment_method", "age">>]>>
        used(e) == \E r \in DOMAIN ran : ran[r] = <<e.name>>
    IN SelectSeq(registry, used) \o SelectSeq(registry, LAMBDA e : ~used(e))

\* The tools/list catalog of POST /events: per tool its name and the properties
\* of its hand-written input schema.
PostCatalog ==
    <<[name |-> "getMRR", description |-> "getMRR.description",
       properties |-> <<"date", "interval", "region", "currency", "billing_freq",
                        "payment_method", "age">>],
      [name |-> "getLeads", description |-> "getLeads.description",
       properties |-> <<"date", "interval", "region", "currency", "payment_method", "age">>],
      [name |-> "getCohorts", description |-> "getCohorts.description",
       properties |-> <<"date", "interval", "region", "currency", "billing_freq",
                        "payment_method", "age">>]>>

\* The tools/list catalog of the SDK handler: name and input.shape of each tool.
SdkCatalog ==
    <<[name |-> "getMRR", description |-> "getMRR.description",
       properties |-> getMRRShape],
      [name |-> "getLeads", description |-> "getLeads.description",
       properties |-> getLeadsShape],
      [name |-> "getCohorts", description |-> "getCohorts.description",
       properties |-> getCohortsShape]>>

\* POST /events once the body has ended: JSON.parse and the method dispatch. A
\* body that does not parse, and a message that is null, both end in the outer
\* catch.
PostMessage(b, clock, key) ==
    IF ~b.json \/ b.message = Null
    THEN [kind |-> "respond", ran |-> <<>>, status |-> 400,
          response |-> [jsonrpc |-> Lit("2.0"), id |-> Null,
                        error |-> ErrorObjectData(-32700, <<"Parse error">>,
                            IF ~b.json THEN <<"Unexpected token">>
                            ELSE <<"Cannot read properties of null">>)]]
    ELSE LET message == b.message
             method == Get(message, "method")
         IN IF method = Lit("tools/list")
            THEN [kind |-> "respond", ran |-> <<>>, status |-> 200,
                  response |-> [jsonrpc |-> Lit("2.0"), id |-> Get(message, "id"),
                                result |-> [tools |-> PostCatalog]]]
            ELSE IF method = Lit("tools/call")
            THEN LET answer(step) ==
                         IF step.kind = "fetch" THEN step
                         ELSE [kind |-> "respond", ran |-> step.ran, status |-> 200,
                               response |-> step.response]
                 IN answer(PostToolsCall(message, clock, key))
            ELSE [kind |-> "respond", ran |-> <<>>, status |-> 200,
                  response |-> [jsonrpc |-> Lit("2.0"), id |-> Get(message, "id"),
                                error |-> ErrorObject(-32601, <<"Method not found">>)]]

\* JsonResponse with res.writeHead(200) whatever the status.
JsonResponseOk(status, response) ==
    [status |-> 200, kind |-> "json", doc |-> StripUndefined(response)]

\* res.writeHead(status); res.end(JSON.stringify(response))
JsonResponse(status, response) ==
    [status |-> status, kind |-> "json", doc |-> StripUndefined(response)]

\* The SDK tools/call handler up to the upstream call or to its outcome.
SdkToolsCall(request, clock, key) ==
    LET name == Get(request.params, "name")
        args == Get(request.params, "arguments")
        ranTool(tool, o) ==
            IF o.kind = "fetch"
            THEN [kind |-> "fetch", ran |-> <<tool>>, tool |-> tool, request |-> o.request,
                  clock |-> clock]
            ELSE [kind |-> "settle", ran |-> <<tool>>, outcome |-> o]
        switch(tool) ==
            IF tool = ""
            THEN [kind |-> "settle", ran |-> <<>>,
                  outcome |-> Throw(Error(<<"Unknown tool: ">> \o name.v))]
            ELSE ranTool(tool, ToolRun(tool, args, clock, key))
    IN switch(SwitchTool(name))

-----------------------------------------------------------------------------
(* The inputs the environment supplies *)

ApiKeys == {Undefined, Str(<<>>), Lit("sk_live_xxx")}

\* 2024-02-29, 2024-12-31 and 2025-03-01, counted from 1970-01-01.
Days == {19782, 20088, 20148}

\* The local day of the clock, and by how many days the UTC date of the start
\* and of the end instant differs from the local date: a day back east of
\* Greenwich in the first hours of the day, a day on west of it in the last; the
\* two differ when the zone's offset at the two instants does.
Clocks ==
    {[day |-> d, utcStart |-> a, utcEnd |-> b] :
        d \in Days, a \in {-1, 0, 1}, b \in {-1, 0, 1}} \
    {[day |-> d, utcStart |-> a, utcEnd |-> 0 - a] : d \in Days, a \in {-1, 1}}

ValidDate ==
    <<"2", "0", "2", "4", "0", "1", "0", "1", "-", "2", "0", "2", "4", "0", "2", "0", "1">>
IsoDate == <<"2", "0", "2", "4", "-", "0", "1", "-", "0", "1">>
LetterDate ==
    <<"2", "0", "2", "4", "0", "1", "0", "1", "-", "2", "0", "2", "4", "0", "2", "0", "x">>

ArgKeys ==
    {"date", "interval", "region", "currency", "billing_freq", "payment_method", "age"}

\* The values a call may supply for a field.
FieldSamples(key) ==
    CASE key = "date" -> {Str(ValidDate), Str(IsoDate), Str(LetterDate), Null}
      [] key = "interval" -> {Lit("day"), Lit("month"), Lit("hour"), Num(7)}
      [] key = "region" -> {Lit("europe"), Lit("mars")}
      [] key = "currency" -> {Str(<<"u", "s", "d">>), Str(<<"u", "s", "d", "x">>),
                              Str(<<"u", "s">>)}
      [] key = "billing_freq" -> {Lit("week"), Lit("day")}
      [] key = "payment_method" -> {Lit("visa"), Str(<<>>)}
      [] key = "age" -> {Lit("18-25"), Num(30)}

AllSamples == UNION {FieldSamples(k) : k \in ArgKeys}

\* The argument mappings: at most MaxFields fields, each with one of its samples.
ArgMaps ==
    UNION {{f \in [D -> AllSamples] : \A k \in D : f[k] \in FieldSamples(k)} :
             D \in {D \in SUBSET ArgKeys : Cardinality(D) <= MaxFields}}

Arguments == {Undefined, Null} \cup {Obj(f) : f \in ArgMaps}

CallNames ==
    {Lit("getMRR"), Lit("getLeads"), Lit("getCohorts"), Lit("getForecast")}

Ids == {Undefined, Num(1)}

CallParams ==
    {Obj(StripUndefined([name |-> n, arguments |-> a])) :
        n \in CallNames \cup {Undefined}, a \in Arguments}

MakeMessage(id, method, params) ==
    Obj(StripUndefined([jsonrpc |-> Lit("2.0"), id |-> id, method |-> method,
                        params |-> params]))

\* The parsed messages of a POST body.
PostMessages ==
    {Null, Num(7)}
    \cup {MakeMessage(id, m, Undefined) :
            id \in Ids, m \in {Lit("tools/list"), Lit("tools/call"), Lit("ping"), Undefined}}
    \cup {MakeMessage(id, Lit("tools/call"), Null) : id \in Ids}
    \cup {MakeMessage(id, Lit("tools/call"), q) : id \in Ids, q \in CallParams}

\* A POST body: a text JSON.parse rejects, or the text of a message.
PostBodies == {[json |-> FALSE]} \cup {[json |-> TRUE, message |-> m] : m \in PostMessages}

\* The requests the SDK hands to the handlers: it has checked that name is a
\* string and arguments, if present, an object.
SdkRequests ==
    {[method |-> "tools/list", params |-> Obj(EmptyMap)]}
    \cup {[method |-> "tools/call",
           params |-> Obj(StripUndefined([name |-> n, arguments |-> a]))] :
            n \in CallNames, a \in Arguments \ {Null}}

HttpRequestLines ==
    {[method |-> "OPTIONS", url |-> "/events"],
     [method |-> "POST", url |-> "/events"],
     [method |-> "GET", url |-> "/events"],
     [method |-> "POST", url |-> "/mcp"],
     [method |-> "GET", url |-> "/mcp"]}

NotJson == [t |-> "invalid"]

MrrRow == Obj([date |-> Lit("2024-01"), total_mrr |-> Num(120000)])

JsonPayloads ==
    {Obj([result |-> Arr(<<>>)]), Obj([result |-> Arr(<<MrrRow>>)]),
     Obj([list |-> Arr(<<>>)]), Arr(<<>>)}

\* What the upstream call can end in.
Outcomes ==
    {[kind |-> "network"], [kind |-> "aborted"]}
    \cup {[kind |-> "http", status |-> 200, statusText |-> <<"OK">>,
           text |-> JSONstringify(j).v, json |-> j] : j \in JsonPayloads}
    \cup {[kind |-> "http", status |-> 200, statusText |-> <<"OK">>,
           text |-> <<"<html>">>, json |-> NotJson],
          [kind |-> "http", status |-> 204, statusText |-> <<"No Content">>,
           text |-> <<>>, json |-> NotJson],
          [kind |-> "http", status |-> 304, statusText |-> <<"Not Modified">>,
           text |-> <<>>, json |-> NotJson],
          [kind |-> "http", status |-> 404, statusText |-> <<"Not Found">>,
           text |-> <<"{", "}">>, json |-> Obj(EmptyMap)],
          [kind |-> "http", status |-> 500, statusText |-> <<"Internal Server Error">>,
           text |-> <<"rate limited">>, json |-> NotJson]}

-----------------------------------------------------------------------------
(* The state machine *)

NotWrapped == [done |-> FALSE]

Init ==
    /\ apiKey \in ApiKeys
    /\ pc = [r \in Reqs |-> "idle"]
    /\ transport = [r \in Reqs |-> "none"]
    /\ line = [r \in Reqs |-> [method |-> "", url |-> ""]]
    /\ body = [r \in Reqs |-> [json |-> FALSE]]
    /\ call = [r \in Reqs |-> [tool |-> ""]]
    /\ ran = [r \in Reqs |-> <<>>]
    /\ fetches = [r \in Reqs |-> <<>>]
    /\ upstream = [r \in Reqs |-> <<>>]
    /\ responses = [r \in Reqs |-> <<>>]
    /\ wrapIn = Undefined
    /\ wrapOut = NotWrapped

\* The effect of a handler step: an upstream call issued, or the answer sent.
AfterStep(r, step, answer) ==
    IF step.kind = "fetch"
    THEN /\ pc' = [pc EXCEPT ![r] = "awaiting"]
         /\ call' = [call EXCEPT ![r] = [tool |-> step.tool, request |-> step.request,
                                         clock |-> step.clock]]
         /\ fetches' = [fetches EXCEPT ![r] = Append(@, step.request)]
         /\ UNCHANGED responses
    ELSE /\ pc' = [pc EXCEPT ![r] = "responded"]
         /\ responses' = [responses EXCEPT ![r] = Append(@, answer)]
         /\ UNCHANGED <<call, fetches>>

\* The http request handler on a request line: OPTIONS, POST /events (the body
\* listeners are set up), GET /events (the event stream), anything else 404.
HttpRequestOn(r, l, b) ==
    /\ pc[r] = "idle"
    /\ transport' = [transport EXCEPT ![r] = "http"]
    /\ line' = [line EXCEPT ![r] = l]
    /\ IF l.method = "OPTIONS"
       THEN /\ pc' = [pc EXCEPT ![r] = "responded"]
            /\ responses' = [responses EXCEPT ![r] =
                               Append(@, [status |-> 200, kind |-> "empty"])]
            /\ UNCHANGED body
       ELSE IF l.method = "POST" /\ l.url = "/events"
       THEN /\ pc' = [pc EXCEPT ![r] = "receiving"]
            /\ body' = [body EXCEPT ![r] = b]
            /\ UNCHANGED responses
       ELSE IF l.method = "GET" /\ l.url = "/events"
       THEN /\ pc' = [pc EXCEPT ![r] = "streaming"]
            /\ responses' = [responses EXCEPT ![r] =
                               Append(@, [status |-> 200, kind |-> "event-stream"])]
            /\ UNCHANGED body
       ELSE /\ pc' = [pc EXCEPT ![r] = "responded"]
            /\ responses' = [responses EXCEPT ![r] =
                               Append(@, [status |-> 404, kind |-> "text",
                                          text |-> <<"Not Found">>])]
            /\ UNCHANGED body
    /\ UNCHANGED <<apiKey, call, ran, fetches, upstream, wrapIn, wrapOut>>

\* A request with any request line; the body b is the one a POST /events sends.
HttpRequest(r) ==
    /\ pc[r] = "idle"
    /\ \E l \in HttpRequestLines, b \in PostBodies : HttpRequestOn(r, l, b)

\* POST /events: the body has ended and the handler runs to the upstream call or
\* to the response.
PostEndAt(r, clock) ==
    /\ pc[r] = "receiving"
    /\ LET handle(step) ==
               /\ ran' = [ran EXCEPT ![r] = step.ran]
               /\ AfterStep(r, step,
                      IF step.kind = "fetch" THEN NotWrapped
                      ELSE JsonResponse(step.status, step.response))
       IN handle(PostMessage(body[r], clock, apiKey))
    /\ UNCHANGED <<apiKey, transport, line, body, upstream, wrapIn, wrapOut>>

PostEnd(r) ==
    /\ pc[r] = "receiving"
    /\ \E clock \in Clocks : PostEndAt(r, clock)

\* A request reaches the SDK's handlers (tools/list, tools/call).
SdkRequestOn(r, request, clock) ==
    /\ pc[r] = "idle"
    /\ transport' = [transport EXCEPT ![r] = "sdk"]
    /\ body' = [body EXCEPT ![r] = request]
    /\ IF request.method = "tools/list"
       THEN /\ ran' = ran
            /\ AfterStep(r, [kind |-> "settle"], Return([tools |-> SdkCatalog]))
       ELSE LET handle(step) ==
                    /\ ran' = [ran EXCEPT ![r] = step.ran]
                    /\ AfterStep(r, step,
                           IF step.kind = "fetch" THEN NotWrapped ELSE step.outcome)
            IN handle(SdkToolsCall(request, clock, apiKey))
    /\ UNCHANGED <<apiKey, line, upstream, wrapIn, wrapOut>>

SdkRequest(r) ==
    /\ pc[r] = "idle"
    /\ \E request \in SdkRequests, clock \in Clocks : SdkRequestOn(r, request, clock)

\* The upstream call of a request settles and its handler runs on.
\* UpstreamReplyOn with the parsed message held in one variable shared by the
\* handlers: the response is built from the message of any request in flight.
UpstreamReplyShared(r, outcome) ==
    /\ pc[r] = "awaiting"
    /\ \E s \in DOMAIN pc :
         /\ transport[s] = "http" /\ pc[s] \in {"receiving", "awaiting"}
         /\ body[s].json /\ body[s].message.t = "object"
         /\ LET resume(o) ==
                    /\ upstream' = [upstream EXCEPT ![r] = Append(@, outcome)]
                    /\ AfterStep(r,
                           IF o.kind = "fetch"
                           THEN [kind |-> "fetch", tool |-> call[r].tool,
                                 request |-> o.request, clock |-> call[r].clock]
                           ELSE [kind |-> "settle"],
                           IF o.kind = "fetch" THEN NotWrapped
                           ELSE IF transport[r] = "http"
                           THEN JsonResponse(200, PostToolResponse(body[s].message, o))
                           ELSE o)
            IN resume(ToolResume(call[r].tool, call[r].request, outcome))
    /\ UNCHANGED <<apiKey, transport, line, body, ran, wrapIn, wrapOut>>

UpstreamReplyOn(r, outcome) ==
    /\ pc[r] = "awaiting"
    /\ LET resume(o) ==
               /\ upstream' = [upstream EXCEPT ![r] = Append(@, outcome)]
               /\ AfterStep(r,
                      IF o.kind = "fetch"
                      THEN [kind |-> "fetch", tool |-> call[r].tool, request |-> o.request,
                            clock |-> call[r].clock]
                      ELSE [kind |-> "settle"],
                      IF o.kind = "fetch" THEN NotWrapped
                      ELSE IF transport[r] = "http"
                      THEN JsonResponse(200, PostToolResponse(body[r].message, o))
                      ELSE o)
       IN resume(ToolResume(call[r].tool, call[r].request, outcome))
    /\ UNCHANGED <<apiKey, transport, line, body, ran, wrapIn, wrapOut>>

UpstreamReply(r) ==
    /\ pc[r] = "awaiting"
    /\ \E outcome \in Outcomes : UpstreamReplyOn(r, outcome)

Next ==
    \E r \in Reqs :
        \/ HttpRequest(r)
        \/ PostEnd(r)
        \/ SdkRequest(r)
        \/ UpstreamReply(r)

Spec == Init /\ [][Next]_vars

\* The upstream call settles or fails once issued.
FairSpec == Spec /\ \A r \in Reqs : WF_vars(UpstreamReply(r))

-----------------------------------------------------------------------------
(* Several requests in flight at once *)

Sessions == {"s1", "s2", "s3"}

SessionIds == {Num(1), Num(2)}

SessionCalls ==
    {Obj([name |-> Lit("getLeads"), arguments |-> Obj([region |-> Lit("europe")])]),
     Obj([name |-> Lit("getLeads"), arguments |-> Obj([region |-> Lit("mars")])]),
     Obj([name |-> Lit("getMRR"), arguments |-> Obj(EmptyMap)]),
     Obj([name |-> Lit("getForecast")])}

SessionBodies ==
    {[json |-> FALSE]}
    \cup {[json |-> TRUE, message |-> MakeMessage(id, Lit("tools/list"), Undefined)] :
            id \in SessionIds}
    \cup {[json |-> TRUE, message |-> MakeMessage(id, Lit("tools/call"), q)] :
            id \in SessionIds, q \in SessionCalls}

SessionSdkRequests ==
    {[method |-> "tools/list", params |-> Obj(EmptyMap)],
     [method |-> "tools/call",
      params |-> Obj([name |-> Lit("getCohorts"), arguments |-> Obj(EmptyMap)])]}

SessionClock == [day |-> 19782, utcStart |-> 0, utcEnd |-> 0]

SessionOutcomes ==
    {[kind |-> "network"],
     [kind |-> "http", status |-> 200, statusText |-> <<"OK">>,
      text |-> JSONstringify(Obj([result |-> Arr(<<>>)])).v, json |-> Obj([result |-> Arr(<<>>)])],
     [kind |-> "http", status |-> 200, statusText |-> <<"OK">>,
      text |-> JSONstringify(Obj([result |-> Arr(<<MrrRow>>)])).v,
      json |-> Obj([result |-> Arr(<<MrrRow>>)])],
     [kind |-> "http", status |-> 500, statusText |-> <<"Internal Server Error">>,
      text |-> <<"rate limited">>, json |-> NotJson]}

SessionInit ==
    /\ apiKey \in ApiKeys
    /\ pc = [r \in Sessions |-> "idle"]
    /\ transport = [r \in Sessions |-> "none"]
    /\ line = [r \in Sessions |-> [method |-> "", url |-> ""]]
    /\ body = [r \in Sessions |-> [json |-> FALSE]]
    /\ call = [r \in Sessions |-> [tool |-> ""]]
    /\ ran = [r \in Sessions |-> <<>>]
    /\ fetches = [r \in Sessions |-> <<>>]
    /\ upstream = [r \in Sessions |-> <<>>]
    /\ responses = [r \in Sessions |-> <<>>]
    /\ wrapIn = Undefined
    /\ wrapOut = NotWrapped

\* A POST /events request arrives; its handler waits for the body to end.
SessionPost(r) ==
    /\ pc[r] = "idle"
    /\ \E b \in SessionBodies :
         HttpRequestOn(r, [method |-> "POST", url |-> "/events"], b)

SessionPostEnd(r) ==
    /\ pc[r] = "receiving"
    /\ PostEndAt(r, SessionClock)

SessionSdk(r) ==
    /\ pc[r] = "idle"
    /\ \E request \in SessionSdkRequests : SdkRequestOn(r, request, SessionClock)

SessionReply(r) ==
    /\ pc[r] = "awaiting"
    /\ \E outcome \in SessionOutcomes : UpstreamReplyOn(r, outcome)

\* The handlers of the requests in flight run in any order, each from one
\* suspension point (body reception, the upstream call) to the next.
SessionNext ==
    \E r \in Sessions :
        \/ SessionPost(r)
        \/ SessionPostEnd(r)
        \/ SessionSdk(r)
        \/ SessionReply(r)

SessionSpec == SessionInit /\ [][SessionNext]_vars

-----------------------------------------------------------------------------
(* wrapTool on its own: any value a tool function may return *)

Scalars == {Undefined, Null, Str(<<>>), Lit("a"), Num(0), Num(42)}

ScalarArrays == UNION {[1..n -> Scalars] : n \in 0..MaxItems}

Blocks == {TextBlock(Lit("hi")), TextBlock(Str(<<>>))}

BlockArrays == UNION {[1..n -> Blocks] : n \in 0..MaxItems}

\* Objects with a content key, conformant (an array of text blocks) or not, and
\* objects without one.
ResultObjects ==
    {Envelope(bs) : bs \in BlockArrays}
    \cup {Obj([content |-> x]) : x \in Scalars}
    \cup {Obj([content |-> x, isError |-> Num(1)]) : x \in Scalars}
    \cup {Obj([list |-> x]) : x \in Scalars \cup {Arr(a) : a \in ScalarArrays}}
    \cup {Obj(EmptyMap)}

ToolResults == Scalars \cup {Arr(a) : a \in ScalarArrays} \cup ResultObjects

WrapInit ==
    /\ apiKey = Undefined
    /\ pc = [r \in Reqs |-> "idle"]
    /\ transport = [r \in Reqs |-> "none"]
    /\ line = [r \in Reqs |-> [method |-> "", url |-> ""]]
    /\ body = [r \in Reqs |-> [json |-> FALSE]]
    /\ call = [r \in Reqs |-> [tool |-> ""]]
    /\ ran = [r \in Reqs |-> <<>>]
    /\ fetches = [r \in Reqs |-> <<>>]
    /\ upstream = [r \in Reqs |-> <<>>]
    /\ responses = [r \in Reqs |-> <<>>]
    /\ wrapIn \in ToolResults
    /\ wrapOut = NotWrapped

\* The wrapped function is called and the tool function returns wrapIn.
WrapRun ==
    /\ ~wrapOut.done
    /\ wrapOut' = [done |-> TRUE, value |-> wrapTool(wrapIn)]
    /\ UNCHANGED <<apiKey, pc, transport, line, body, call, ran, fetches, upstream,
                   responses, wrapIn>>

WrapSpec == WrapInit /\ [][WrapRun]_vars

-----------------------------------------------------------------------------
(* What the claims speak of *)

\* The handler of request r has run (its body, if any, was fully received).
Handled(r) == pc[r] \in {"awaiting", "responded"}

Answered(r) == pc[r] = "responded"

IsPost(r) == transport[r] = "http" /\ line[r] = [method |-> "POST", url |-> "/events"]

\* A POST /events request whose body parsed to a message.
PostParsed(r) == IsPost(r) /\ Handled(r) /\ body[r].json

\* A tools/call request that carries a params object.
PostCall(r) ==
    /\ PostParsed(r)
    /\ body[r].message.t = "object"
    /\ Get(body[r].message, "method") = Lit("tools/call")
    /\ Get(body[r].message, "params").t = "object"

SdkCall(r) == transport[r] = "sdk" /\ Handled(r) /\ body[r].method = "tools/call"

ToolsCall(r) == PostCall(r) \/ SdkCall(r)

ParamsOf(r) ==
    IF transport[r] = "http" THEN Get(body[r].message, "params") ELSE body[r].params

NameOf(r) == Get(ParamsOf(r), "name")

ArgsOf(r) == Get(ParamsOf(r), "arguments")

\* The three registered tool names.
Registered(name) == name \in {Lit("getMRR"), Lit("getLeads"), Lit("getCohorts")}

ToolOf(r) == NameOf(r).v[1]

\* The fields a tool declares: billing_freq for getMRR and getCohorts only.
DeclaredKeys(tool) == IF tool = "getLeads" THEN ArgKeys \ {"billing_freq"} ELSE ArgKeys

\* The documented constraint of each filter field.
FieldValid(key, x) ==
    /\ x.t = "string"
    /\ CASE key = "date" -> DateRegex(x.v)
         [] key = "interval" -> x.v \in {<<"day">>, <<"week">>, <<"month">>, <<"quarter">>,
                                          <<"year">>}
         [] key = "region" -> x.v \in {<<"europe">>, <<"asia">>, <<"north_america">>,
                                       <<"emea">>, <<"apac">>}
         [] key = "currency" -> Len(x.v) = 3
         [] key = "billing_freq" -> x.v \in {<<"week">>, <<"month">>, <<"quarter">>,
                                             <<"year">>}
         [] OTHER -> TRUE

\* The arguments pass the input validation of the tool.
ArgsValid(tool, args) ==
    /\ args.t = "object"
    /\ \A key \in DOMAIN args.v \cap DeclaredKeys(tool) : FieldValid(key, args.v[key])

\* The answer to request r: the last response sent (http), the outcome of the
\* handler (sdk).
Answer(r) == responses[r][Len(responses[r])]

\* The answer is an error and carries no result.
ErrorAnswer(r) ==
    IF transport[r] = "http"
    THEN /\ Answer(r).kind = "json"
         /\ "error" \in DOMAIN Answer(r).doc
         /\ "result" \notin DOMAIN Answer(r).doc
    ELSE Answer(r).kind = "throw"

\* The numeric code of an error answer; a thrown error without a code has none (0).
ErrorCode(r) ==
    IF transport[r] = "http" THEN Answer(r).doc.error.v.code.v
    ELSE IF "code" \in DOMAIN Answer(r).error THEN Answer(r).error.code ELSE 0

\* The detail an error answer carries: error.data (http), the error's message (sdk).
ErrorDetail(r) ==
    IF transport[r] = "http"
    THEN (IF "data" \in DOMAIN Answer(r).doc.error.v
          THEN Answer(r).doc.error.v.data.v ELSE <<>>)
    ELSE Answer(r).error.message

-----------------------------------------------------------------------------
(* C1 *)

\* C1: a tools/call whose tool name is not one of getMRR, getLeads, getCohorts
\* ends in a MethodNotFound error (code -32601), runs no tool execution function
\* and issues no upstream request, on POST /events and in the SDK handler alike.
C1_UnknownToolIsMethodNotFound ==
    \A r \in Reqs :
        (ToolsCall(r) /\ ~Registered(NameOf(r))) =>
            /\ ran[r] = <<>>
            /\ fetches[r] = <<>>
            /\ Answered(r)
            /\ ErrorAnswer(r)
            /\ ErrorCode(r) = -32601

-----------------------------------------------------------------------------
(* C2 *)

\* C2: when the arguments of a call to a registered tool fail input validation,
\* no upstream request is issued for that invocation (so no default date is
\* forwarded either) and the caller receives an error and no result.
C2_InvalidArgsNeverReachUpstream ==
    \A r \in Reqs :
        (ToolsCall(r) /\ Registered(NameOf(r)) /\ ~ArgsValid(ToolOf(r), ArgsOf(r))) =>
            /\ fetches[r] = <<>>
            /\ upstream[r] = <<>>
            /\ Answered(r)
            /\ ErrorAnswer(r)

\* getCohorts was called with a currency of four characters and was answered.
C2_Witness ==
    \E r \in Reqs :
        /\ ToolsCall(r) /\ Answered(r)
        /\ NameOf(r) = Lit("getCohorts")
        /\ ArgsOf(r).t = "object"
        /\ Get(ArgsOf(r), "currency") = Str(<<"u", "s", "d", "x">>)

-----------------------------------------------------------------------------
(* C3 *)

NonOk(outcome) == outcome.kind = "http" /\ (outcome.status < 200 \/ outcome.status > 299)

\* C3: when the upstream answers a validated tool call with a status outside
\* 200..299, the caller gets an error and no result, the error's detail holds
\* the status code and the upstream body text, and on POST /events its code is
\* -32603.
C3_UpstreamFailureIsInternalError ==
    \A r \in Reqs :
        (ToolsCall(r) /\ Answered(r) /\ Len(upstream[r]) > 0 /\ NonOk(upstream[r][1])) =>
            /\ ErrorAnswer(r)
            /\ (transport[r] = "http" => ErrorCode(r) = -32603)
            /\ Contains(ErrorDetail(r), NatToString(upstream[r][1].status))
            /\ Contains(ErrorDetail(r), upstream[r][1].text)

\* POST /events answered a tool call whose upstream said 500, "rate limited".
C3_Witness ==
    \E r \in Reqs :
        /\ PostCall(r) /\ Answered(r) /\ Len(upstream[r]) = 1
        /\ NonOk(upstream[r][1])
        /\ upstream[r][1].status = 500
        /\ upstream[r][1].text = <<"rate limited">>

-----------------------------------------------------------------------------
(* C4 *)

\* C4: when the arguments of a tools/call fail validation, the error is of
\* kind InvalidParams (code -32602), told apart by its code from the
\* InternalError (-32603) of upstream and execution failures, and it carries
\* the validation detail.
C4_ValidationIsInvalidParams ==
    \A r \in Reqs :
        (PostCall(r) /\ Answered(r) /\ Registered(NameOf(r))
            /\ ~ArgsValid(ToolOf(r), ArgsOf(r))) =>
            /\ ErrorAnswer(r)
            /\ ErrorCode(r) = -32602
            /\ Len(ErrorDetail(r)) > 0

-----------------------------------------------------------------------------
(* C5 *)

\* {content: [{type: "text", text: <string>}, ...]}
WellFormedEnvelope(x) ==
    /\ x.t = "object"
    /\ Get(x, "content").t = "array"
    /\ \A i \in 1..Len(Get(x, "content").v) :
          /\ Get(x, "content").v[i].t = "object"
          /\ Get(Get(x, "content").v[i], "type") = Lit("text")
          /\ Get(Get(x, "content").v[i], "text").t = "string"

\* One response, one JSON-RPC document, exactly one of result and error.
OneDocument(r) ==
    /\ Len(responses[r]) = 1
    /\ responses[r][1].kind = "json"
    /\ ("result" \in DOMAIN responses[r][1].doc) # ("error" \in DOMAIN responses[r][1].doc)
    /\ "error" \in DOMAIN responses[r][1].doc =>
          /\ responses[r][1].doc.error.t = "object"
          /\ Get(responses[r][1].doc.error, "code").t = "number"
          /\ Get(responses[r][1].doc.error, "message").t = "string"

C5_Safety ==
    \A r \in Reqs :
        IsPost(r) =>
            /\ ~Answered(r) => responses[r] = <<>>
            /\ Answered(r) => OneDocument(r)
            /\ (Answered(r) /\ PostCall(r) /\ "result" \in DOMAIN responses[r][1].doc) =>
                  WellFormedEnvelope(responses[r][1].doc.result)

\* C5: a POST /events request whose body was fully received is answered with
\* exactly one response carrying one JSON-RPC document with exactly one of result
\* and error (a content envelope, or an error with a numeric code and a
\* message), and the response is eventually sent once the upstream call settles.
C5_OneDocumentEventually ==
    /\ []C5_Safety
    /\ \A r \in Reqs : (IsPost(r) /\ Handled(r)) ~> (Answered(r) /\ OneDocument(r))

\* POST /events answered a tool call with a result after the upstream replied.
C5_Witness ==
    \E r \in Reqs :
        /\ PostCall(r) /\ Answered(r) /\ Len(upstream[r]) = 1
        /\ "result" \in DOMAIN responses[r][1].doc

-----------------------------------------------------------------------------
(* C6 *)

\* C6: whatever a tool execution function returns, wrapTool returns a well-formed
\* envelope: a conformant envelope unchanged, an array as one text block per
\* element, any other value as exactly one text block with its serialized form.
C6_WrapToolWellFormed ==
    wrapOut.done =>
        /\ WellFormedEnvelope(wrapOut.value)
        /\ WellFormedEnvelope(wrapIn) => wrapOut.value = wrapIn
        /\ (~WellFormedEnvelope(wrapIn) /\ wrapIn.t = "array") =>
              Len(Get(wrapOut.value, "content").v) = Len(wrapIn.v)
        /\ (~WellFormedEnvelope(wrapIn) /\ wrapIn.t # "array") =>
              Len(Get(wrapOut.value, "content").v) = 1

-----------------------------------------------------------------------------
(* C7 *)

CredentialPresent == apiKey.t = "string" /\ Len(apiKey.v) > 0

\* The upstream call failed: no connection, a broken body, a status outside
\* 200..299, or a body that is not JSON.
Failed(outcome) ==
    \/ outcome.kind \in {"network", "aborted"}
    \/ NonOk(outcome)
    \/ outcome.kind = "http" /\ outcome.json = NotJson

\* C7: a tool invocation issues at most one upstream GET request, exactly one
\* when validation passes and the credential is present; an upstream failure is
\* passed on to the caller as an error and is never followed by a second request.
C7_AtMostOneUpstreamGet ==
    \A r \in Reqs :
        /\ Len(fetches[r]) <= 1
        /\ \A i \in 1..Len(fetches[r]) : fetches[r][i].method = "GET"
        /\ (ToolsCall(r) /\ Registered(NameOf(r)) /\ ArgsValid(ToolOf(r), ArgsOf(r))
              /\ CredentialPresent) => Len(fetches[r]) = 1
        /\ (Len(upstream[r]) > 0 /\ Failed(upstream[r][1])) =>
              /\ Answered(r)
              /\ ErrorAnswer(r)
              /\ Len(upstream[r]) = 1

\* A tool call was answered after its one upstream request failed to connect.
C7_Witness ==
    \E r \in Reqs :
        /\ ToolsCall(r) /\ Answered(r)
        /\ Len(fetches[r]) = 1
        /\ upstream[r] = <<[kind |-> "network"]>>

-----------------------------------------------------------------------------
(* C8 *)

\* C8: while the credential is absent no upstream request is issued, and every
\* invocation that reaches the upstream client fails with the configuration error.
C8_NoCredentialNoRequest ==
    ~CredentialPresent =>
        \A r \in Reqs :
            /\ fetches[r] = <<>>
            /\ pc[r] # "awaiting"
            /\ (ToolsCall(r) /\ Registered(NameOf(r)) /\ ArgsValid(ToolOf(r), ArgsOf(r))) =>
                  /\ Answered(r)
                  /\ ErrorAnswer(r)
                  /\ Contains(ErrorDetail(r),
                              <<"GROWPANEL_API_KEY environment variable is required">>)

\* Without a credential a call with valid arguments reached the upstream client.
C8_Witness ==
    /\ apiKey = Undefined
    /\ \E r \in Reqs :
          /\ ToolsCall(r) /\ Answered(r) /\ Registered(NameOf(r))
          /\ ArgsValid(ToolOf(r), ArgsOf(r))

-----------------------------------------------------------------------------
(* C9 *)

EnumKeys == {"region", "interval", "billing_freq"}

\* Validation rejected the call because of the field key.
RejectedFor(r, key) ==
    /\ fetches[r] = <<>>
    /\ Answered(r)
    /\ ErrorAnswer(r)
    /\ Contains(ErrorDetail(r), <<",path:", key>>)

\* C9 as claimed: in every tool, a region, interval or billing_freq outside its
\* enumerated set has the call rejected by validation.
C9_EnumsRejectedInEveryTool ==
    \A r \in Reqs :
        (ToolsCall(r) /\ Registered(NameOf(r)) /\ ArgsOf(r).t = "object") =>
            \A key \in EnumKeys \cap DOMAIN ArgsOf(r).v :
                ~FieldValid(key, ArgsOf(r).v[key]) => RejectedFor(r, key)

\* C9 as amended: a region or interval outside its set is rejected in every tool,
\* a billing_freq outside its set in getMRR and getCohorts; getLeads declares no
\* billing_freq, does not reject a call for it and never forwards it.
C9_EnumsRejectedWhereDeclared ==
    \A r \in Reqs :
        (ToolsCall(r) /\ Registered(NameOf(r)) /\ ArgsOf(r).t = "object") =>
            /\ \A key \in EnumKeys \cap DOMAIN ArgsOf(r).v \cap DeclaredKeys(ToolOf(r)) :
                  ~FieldValid(key, ArgsOf(r).v[key]) => RejectedFor(r, key)
            /\ ToolOf(r) = "getLeads" =>
                  /\ (Answered(r) /\ ErrorAnswer(r)) =>
                        ~Contains(ErrorDetail(r), <<",path:", "billing_freq">>)
                  /\ \A i \in 1..Len(fetches[r]) :
                        ~HasKey(fetches[r][i].query, "billing_freq")

\* getMRR was called with billing_freq "day", a value of interval only.
C9_Witness ==
    \E r \in Reqs :
        /\ ToolsCall(r) /\ Answered(r)
        /\ NameOf(r) = Lit("getMRR")
        /\ ArgsOf(r).t = "object"
        /\ Get(ArgsOf(r), "billing_freq") = Lit("day")

-----------------------------------------------------------------------------
(* C10 *)

SchemaOrder ==
    <<"date", "interval", "region", "currency", "billing_freq", "payment_method", "age">>

Position(key) == CHOOSE i \in 1..Len(SchemaOrder) : SchemaOrder[i] = key

\* The supplied fields the tool declares, with interval, in schema order, each
\* with the supplied value (month for an omitted interval).
SuppliedQuery(tool, args) ==
    LET keys == SelectSeq(SchemaOrder,
                          LAMBDA k : k \in DeclaredKeys(tool)
                                     /\ (k \in DOMAIN args.v \/ k = "interval"))
    IN [i \in 1..Len(keys) |->
          <<keys[i], IF keys[i] \in DOMAIN args.v THEN args.v[keys[i]].v ELSE <<"month">>>>]

\* C10 as claimed: the query holds exactly the filter fields of the call (the
\* supplied ones, interval=month and the date), each once, in schema order, and
\* no parameter with an empty value.
C10_QueryInSchemaOrder ==
    \A r \in Reqs :
        \A n \in 1..Len(fetches[r]) :
            LET q == fetches[r][n].query
            IN /\ \A i, j \in 1..Len(q) : i < j => Position(q[i][1]) < Position(q[j][1])
               /\ {q[i][1] : i \in 1..Len(q)} =
                     (DOMAIN ArgsOf(r).v \cap DeclaredKeys(ToolOf(r))) \cup {"date", "interval"}
               /\ \A i \in 1..Len(q) : q[i][2] # <<>>

\* C10 as amended: the query holds the supplied fields the tool declares, each
\* once with its supplied value (an empty string included), in schema order, with
\* interval=month when interval was omitted, and, when date was omitted, the
\* default date as the last parameter; nothing is sent for an absent field.
C10_QueryIsSuppliedThenDefaultDate ==
    \A r \in Reqs :
        \A n \in 1..Len(fetches[r]) :
            LET q == fetches[r][n].query
                head == SuppliedQuery(ToolOf(r), ArgsOf(r))
            IN /\ "date" \in DOMAIN ArgsOf(r).v => q = head
               /\ "date" \notin DOMAIN ArgsOf(r).v =>
                     /\ Len(q) = Len(head) + 1
                     /\ SubSeq(q, 1, Len(head)) = head
                     /\ q[Len(q)][1] = "date"
                     /\ DateRegex(q[Len(q)][2])
               /\ (ToolOf(r) = "getLeads"
                     /\ ArgsOf(r) = Obj([date |-> Str(ValidDate), region |-> Lit("europe")])) =>
                     q = <<<<"date", ValidDate>>, <<"interval", <<"month">>>>,
                           <<"region", <<"europe">>>>>>

\* A call without date and with an empty payment_method reached the upstream:
\* payment_method= is sent and the default date comes last.
C10_Witness ==
    \E r \in Reqs :
        /\ Len(fetches[r]) = 1
        /\ "date" \notin DOMAIN ArgsOf(r).v
        /\ Len(fetches[r][1].query) = 3
        /\ fetches[r][1].query[2] = <<"payment_method", <<>>>>
        /\ fetches[r][1].query[3][1] = "date"

-----------------------------------------------------------------------------
(* C11 *)

\* C11: a POST /events request whose body is not parseable as JSON is answered
\* with HTTP 400 and a JSON-RPC error of code -32700 and id null; no tool is
\* dispatched and no upstream request is issued.
C11_UnparseableBodyIsParseError ==
    \A r \in Reqs :
        (IsPost(r) /\ Handled(r) /\ ~body[r].json) =>
            /\ Answered(r)
            /\ Len(responses[r]) = 1
            /\ Answer(r).status = 400
            /\ ErrorAnswer(r)
            /\ ErrorCode(r) = -32700
            /\ "id" \in DOMAIN Answer(r).doc
            /\ Answer(r).doc.id = Null
            /\ ran[r] = <<>>
            /\ fetches[r] = <<>>

\* POST /events answered a body that JSON.parse rejected.
C11_Witness ==
    \E r \in Reqs : IsPost(r) /\ Answered(r) /\ ~body[r].json

-----------------------------------------------------------------------------
(* C12 *)

\* The date parameter of a query.
DateSent(query) == Lookup(query, "date")

\* C12: when a valid call omits date, the date forwarded upstream is
\* start-end with end the day of the call and start exactly 365 days before it,
\* matching ^\d{8}-\d{8}$, in each of the three tools; a supplied valid date is
\* forwarded unchanged.
C12_DefaultDateIsLast365Days ==
    \A r \in Reqs :
        \A n \in 1..Len(fetches[r]) :
            /\ "date" \notin DOMAIN ArgsOf(r).v =>
                  /\ DateSent(fetches[r][n].query) =
                        FormatDay(call[r].clock.day - 365) \o <<"-">>
                            \o FormatDay(call[r].clock.day)
                  /\ DateRegex(DateSent(fetches[r][n].query))
            /\ "date" \in DOMAIN ArgsOf(r).v =>
                  DateSent(fetches[r][n].query) = ArgsOf(r).v["date"].v

-----------------------------------------------------------------------------
(* C15 *)

\* C15: a JSON-RPC POST or a streaming GET on the documented path /mcp is routed
\* to the protocol endpoint (the body is read and dispatched, or the event
\* stream is opened) and is not rejected.
C15_McpPathIsServed ==
    \A r \in Reqs :
        (transport[r] = "http" /\ line[r].url = "/mcp"
            /\ line[r].method \in {"POST", "GET"}) =>
            \/ pc[r] \in {"receiving", "awaiting", "streaming"}
            \/ Answered(r) /\ Answer(r).kind = "json"

-----------------------------------------------------------------------------
(* C16 *)

\* The id of a response document, undefined when it has none.
DocId(doc) == IF "id" \in DOMAIN doc THEN doc.id ELSE Undefined

\* C16: on POST /events a response has id null (with code -32700 and HTTP 400)
\* only when the body did not parse; every body that is parseable JSON is
\* answered with HTTP 200 and a document whose id is the id of the request.
C16_IdNullOnlyForParseFailure ==
    \A r \in Reqs :
        (IsPost(r) /\ Answered(r)) =>
            /\ Answer(r).kind = "json"
            /\ body[r].json =>
                  /\ Answer(r).status = 200
                  /\ DocId(Answer(r).doc) = Get(body[r].message, "id")
            /\ DocId(Answer(r).doc) = Null =>
                  /\ ~body[r].json
                  /\ Answer(r).status = 400
                  /\ ErrorCode(r) = -32700

-----------------------------------------------------------------------------
(* C13 *)

\* Request r was a tools/list and has been answered.
ListAnswered(r) ==
    /\ Answered(r)
    /\ \/ IsPost(r) /\ body[r].json /\ Get(body[r].message, "method") = Lit("tools/list")
       \/ transport[r] = "sdk" /\ body[r].method = "tools/list"

\* The catalog the answer carries.
CatalogOf(r) ==
    IF transport[r] = "http" THEN Answer(r).doc.result.tools ELSE Answer(r).value.tools

\* C13: any two tools/list answers on the same transport carry identical
\* catalogs, listing exactly getMRR, getLeads, getCohorts in that order, each with
\* name, description and input shape, whatever tools/call or tools/list requests
\* were handled before or between them.
C13_ToolsListIsPure ==
    \A r \in DOMAIN pc :
        ListAnswered(r) =>
            /\ ~ErrorAnswer(r)
            /\ Len(CatalogOf(r)) = 3
            /\ [i \in 1..3 |-> CatalogOf(r)[i].name] = <<"getMRR", "getLeads", "getCohorts">>
            /\ \A i \in 1..3 :
                  /\ "description" \in DOMAIN CatalogOf(r)[i]
                  /\ CatalogOf(r)[i].properties =
                        SelectSeq(SchemaOrder,
                                  LAMBDA k : k \in DeclaredKeys(CatalogOf(r)[i].name))
            /\ \A s \in DOMAIN pc :
                  (ListAnswered(s) /\ transport[s] = transport[r]) =>
                      CatalogOf(s) = CatalogOf(r)

\* Two tools/list requests were answered on POST /events, and a third request
\* ran a tool and was answered.
C13_Witness ==
    \E r, s, u \in DOMAIN pc :
        /\ r # s /\ r # u /\ s # u
        /\ ListAnswered(r) /\ ListAnswered(s)
        /\ transport[r] = "http" /\ transport[s] = "http"
        /\ Answered(u) /\ ran[u] # <<>>

-----------------------------------------------------------------------------
(* C14 *)

\* The answer to r is r's own: its id is the id of r's message, an error when r's
\* upstream call failed, and the same as the answer to any request with the same
\* message and the same upstream response.
C14_Own ==
    \A r \in DOMAIN pc :
        (IsPost(r) /\ Answered(r)) =>
            /\ Len(responses[r]) = 1
            /\ (body[r].json /\ body[r].message # Null) =>
                  DocId(Answer(r).doc) = Get(body[r].message, "id")
            /\ (Len(upstream[r]) > 0 /\ Failed(upstream[r][1])) => ErrorAnswer(r)
            /\ (~ErrorAnswer(r) /\ PostCall(r)) =>
                  /\ Len(upstream[r]) = 1
                  /\ ~Failed(upstream[r][1])
                  /\ NameOf(r) = Lit("getLeads") =>
                        Answer(r).doc.result =
                            Envelope(<<TextBlock(JSONstringify(upstream[r][1].json))>>)
            /\ \A s \in DOMAIN pc :
                  (IsPost(s) /\ Answered(s) /\ body[s] = body[r]
                      /\ upstream[s] = upstream[r]) => responses[s] = responses[r]

\* A step belongs to one request: it leaves the body, the upstream response and
\* the answer of every other request as they were; a received body never
\* changes and an answer sent is never changed.
C14_Step ==
    /\ \E r \in DOMAIN pc :
          \A s \in DOMAIN pc \ {r} :
              /\ pc'[s] = pc[s]
              /\ body'[s] = body[s]
              /\ call'[s] = call[s]
              /\ fetches'[s] = fetches[s]
              /\ upstream'[s] = upstream[s]
              /\ responses'[s] = responses[s]
    /\ \A r \in DOMAIN pc :
          /\ pc[r] # "idle" => body'[r] = body[r]
          /\ responses[r] # <<>> => responses'[r] = responses[r]

\* C14: whatever the interleaving of concurrently handled POST /events requests,
\* each response depends only on its request's own message and own upstream
\* response and carries that request's id and result or error, and handling one
\* request never changes the body, result or response of another.
C14_RequestsAreIsolated == []C14_Own /\ [][C14_Step]_vars

\* A POST /events tool call was answered with its result while another, with a
\* different id, was still waiting for its upstream call.
C14_Witness ==
    \E r, s \in DOMAIN pc :
        /\ r # s
        /\ PostCall(r) /\ Answered(r) /\ ~ErrorAnswer(r)
        /\ PostCall(s) /\ pc[s] = "awaiting"
        /\ Get(body[r].message, "id") # Get(body[s].message, "id")

====
